---- MODULE Spec2Model ----
(***************************************************************************)
(* offline-scrobbler: the Last.fm protocol client (src/lastfmapi.rs), the   *)
(* album timeline and the scrobble commands (src/scrobbler.rs) and the      *)
(* command dispatch (src/main.rs), as a state machine of one invocation.    *)
(*                                                                          *)
(* Option<T> is a sequence of length 0 (None) or 1 (Some(v)).               *)
(* An HTTP exchange is a record: net = FALSE is a transport failure of      *)
(* send(); success is status().is_success(); body is the decoded document.  *)
(* A panic (unwrap on None/Err, arithmetic overflow in a checked build) is  *)
(* the outcome kind "Panic": the process aborts, nothing is returned.       *)
(***************************************************************************)
EXTENDS Integers, Sequences, FiniteSets, TLC

\* ------------------------------------------------------------------ bounds
MaxTracks == 3

\* ------------------------------------------------------- program constants
TrackGap == 5
DefaultDuration == 300

\* ------------------------------------------------------------ input domains
None == << >>
Some(v) == << v >>
Option(S) == {None} \cup {Some(v) : v \in S}

RefTimes == {1700000000}
Durations == {180, 200, 220}
StartTexts == {"1h", "-1h"}
Titles == {"Eden"}

\* ApiError and the Ok value of the client calls; anyhow::Error keeps the kind
\* and the message of the error it was converted from.
Ok == [kind |-> "Ok", msg |-> ""]
Err(kind, msg) == [kind |-> kind, msg |-> msg]
Panic == [kind |-> "Panic", msg |-> ""]
NoResult == [kind |-> "none", msg |-> ""]

\* str::parse::<i64> on the attribute texts the model sends
ParseI64(s) ==
    CASE s = "0" -> Some(0)
      [] s = "1" -> Some(1)
      [] s = "2" -> Some(2)
      [] OTHER -> None

AttrTexts == {"0", "1", "2", "x"}
AttrVals == Option(AttrTexts)

\* The <scrobble><ignoredMessage code=..>text</ignoredMessage></scrobble> part:
\* scrobble = has a child <scrobble>, ignoredMessage = that child has the element.
NoMessage == [scrobble |-> FALSE, ignoredMessage |-> FALSE, code |-> None, text |-> None]
IgnoredMessages ==
    {NoMessage, [NoMessage EXCEPT !.scrobble = TRUE]}
    \cup [scrobble : {TRUE}, ignoredMessage : {TRUE},
          code : Option({"1"}), text : Option({"reason"})]

\* Bodies of a track.scrobble response: not XML, XML without <scrobbles>, or
\* <scrobbles accepted=.. ignored=..> with the message part.
ScrobbleBodies ==
    {[xml |-> FALSE, scrobbles |-> FALSE, accepted |-> None, ignored |-> None,
      message |-> NoMessage],
     [xml |-> TRUE, scrobbles |-> FALSE, accepted |-> None, ignored |-> None,
      message |-> NoMessage]}
    \cup [xml : {TRUE}, scrobbles : {TRUE}, accepted : AttrVals, ignored : AttrVals,
          message : IgnoredMessages]

NoScrobbleBody == [xml |-> FALSE, scrobbles |-> FALSE, accepted |-> None,
                   ignored |-> None, message |-> NoMessage]

\* A response that is not a success is not parsed: two bodies stand for all.
ScrobbleExchanges ==
    {[net |-> FALSE, success |-> FALSE, body |-> NoScrobbleBody]}
    \cup [net : {TRUE}, success : {FALSE},
          body : {NoScrobbleBody,
                  [xml |-> TRUE, scrobbles |-> TRUE, accepted |-> Some("1"),
                   ignored |-> Some("0"), message |-> NoMessage]}]
    \cup [net : {TRUE}, success : {TRUE}, body : ScrobbleBodies]

\* ------------------------------------------------------------ lastfmapi.rs
parse_scrobble_response(body) ==
    IF ~body.xml THEN Err("Parse", "xml")
    ELSE IF ~body.scrobbles THEN Err("Parse", "xml scrobbles key")
    ELSE IF body.accepted = None THEN Err("Parse", "no acccepted attr")
    ELSE IF ParseI64(body.accepted[1]) = None THEN Err("Parse", "integer")
    ELSE IF body.ignored = None THEN Err("Parse", "no ignored attr")
    ELSE IF ParseI64(body.ignored[1]) = None THEN Err("Parse", "integer")
    ELSE LET accepted_count == ParseI64(body.accepted[1])[1]
             ignored_count == ParseI64(body.ignored[1])[1]
             m == body.message
         IN  IF accepted_count = 1 /\ ignored_count = 0 THEN Ok
             ELSE IF accepted_count = 0 /\ ignored_count = 1 THEN
                 IF ~m.scrobble THEN Err("Parse", "xml tag scrobble")
                 ELSE IF ~m.ignoredMessage THEN Err("Parse", "xml tag ignoredMessage")
                 ELSE IF m.code = None THEN Panic
                 ELSE Err("Unscrobbled",
                          IF m.text = None THEN m.code[1] \o ": "
                          ELSE m.code[1] \o ": " \o m.text[1])
             ELSE Err("Parse", "Wrong response structure")

scrobble(x) ==
    IF ~x.net THEN Err("Generic", "send")
    ELSE IF ~x.success THEN Err("Generic", "Unsuccessfull request")
    ELSE parse_scrobble_response(x.body)

\* A JSON string field: str = Value::as_str() succeeds. A JSON number field:
\* int = Value::as_i64() succeeds (a string such as "215", null or 3.5 is not).
StrVals == {[str |-> FALSE, s |-> ""]} \cup [str : {TRUE}, s : Titles]
DurVals == {[int |-> FALSE, n |-> 0]} \cup [int : {TRUE}, n : Durations]
GoodStrs == {Some(v) : v \in [str : {TRUE}, s : Titles]}

\* An entry of album.tracks.track: each duration shape under a good name, and
\* the two bad names.
JTracks ==
    [name : GoodStrs, duration : Option(DurVals)]
    \cup [name : {None, Some([str |-> FALSE, s |-> ""])},
          duration : {Some([int |-> TRUE, n |-> 180])}]

RECURSIVE SeqsUpTo(_, _)
SeqsUpTo(S, n) ==
    IF n = 0 THEN {<< >>}
    ELSE LET shorter == SeqsUpTo(S, n - 1)
         IN  shorter \cup {Append(q, e) : q \in {r \in shorter : Len(r) = n - 1}, e \in S}

\* album.tracks: absent, or an object whose "track" is absent, not an array, or
\* an array of entries.
TrackVals == {[array |-> FALSE, items |-> << >>]}
             \cup [array : {TRUE}, items : SeqsUpTo(JTracks, MaxTracks)]
TracksVals == Option([track : Option(TrackVals)])

\* album: every shape of name under a good url, every shape of url under a good name
AlbumVals == [name : Option(StrVals), url : GoodStrs, tracks : TracksVals]
             \cup [name : GoodStrs, url : Option(StrVals), tracks : TracksVals]

NoAlbumBody == [json |-> FALSE, object |-> FALSE, album |-> None]
AlbumBodies ==
    {NoAlbumBody, [NoAlbumBody EXCEPT !.json = TRUE]}
    \cup [json : {TRUE}, object : {TRUE}, album : Option(AlbumVals)]

AlbumExchanges ==
    {[net |-> FALSE, success |-> FALSE, body |-> NoAlbumBody]}
    \cup [net : {TRUE}, success : BOOLEAN, body : AlbumBodies]

NoAlbum == [title |-> "", tracks |-> << >>, url |-> None]
AlbumOk(a) == [kind |-> "Ok", msg |-> "", album |-> a]
AlbumErr(kind, msg) == [kind |-> kind, msg |-> msg, album |-> NoAlbum]

parse_track(jtrack) ==
    IF jtrack.name = None THEN [kind |-> "Json", track |-> [title |-> "", duration |-> 0]]
    ELSE IF ~jtrack.name[1].str
        THEN [kind |-> "Json", track |-> [title |-> "", duration |-> 0]]
    ELSE IF jtrack.duration = None
        THEN [kind |-> "Json", track |-> [title |-> "", duration |-> 0]]
    ELSE [kind |-> "Ok",
          track |-> [title |-> jtrack.name[1].s,
                     duration |-> IF jtrack.duration[1].int THEN jtrack.duration[1].n
                                  ELSE DefaultDuration]]

\* mutant: without the is_none check the ok_or(Json) below it answers
tracks_absent_as_json == AlbumErr("Json", "")

\* `if jalbum.get("tracks").is_none()` (lines 249-251)
tracks_absent == AlbumErr("Unscrobbled", "Empty album")

get_album_tracks(x) ==
    IF ~x.net THEN AlbumErr("Generic", "send")
    ELSE IF ~x.success THEN AlbumErr("Generic", "Unsuccessfull request")
    ELSE IF ~x.body.json THEN AlbumErr("Panic", "")
    ELSE IF ~x.body.object THEN AlbumErr("Json", "")
    ELSE IF x.body.album = None THEN AlbumErr("Json", "")
    ELSE LET jalbum == x.body.album[1] IN
         IF jalbum.tracks = None THEN tracks_absent
         ELSE IF jalbum.tracks[1].track = None THEN AlbumErr("Json", "")
         ELSE IF ~jalbum.tracks[1].track[1].array THEN AlbumErr("Json", "")
         ELSE LET jtracks == jalbum.tracks[1].track[1].items
                  parsed == [i \in 1..Len(jtracks) |-> parse_track(jtracks[i])]
              IN  IF \E i \in 1..Len(jtracks) : parsed[i].kind # "Ok"
                      THEN AlbumErr("Json", "")
                  ELSE IF jalbum.name = None THEN AlbumErr("Json", "")
                  ELSE IF ~jalbum.name[1].str THEN AlbumErr("Json", "")
                  ELSE IF jalbum.url = None THEN AlbumErr("Json", "")
                  ELSE AlbumOk([title |-> jalbum.name[1].s,
                                tracks |-> [i \in 1..Len(jtracks) |-> parsed[i].track],
                                url |-> IF jalbum.url[1].str THEN Some(jalbum.url[1].s)
                                        ELSE None])

\* Bodies of an auth.gettoken response: not JSON, JSON that is no object, or an
\* object whose "token" is absent, not a string, or a string.
Tokens == {"tok"}
TokenVals == {[str |-> FALSE, s |-> ""]} \cup [str : {TRUE}, s : Tokens]
NoTokenBody == [json |-> FALSE, object |-> FALSE, token |-> None]
TokenBodies ==
    {NoTokenBody, [NoTokenBody EXCEPT !.json = TRUE]}
    \cup [json : {TRUE}, object : {TRUE}, token : Option(TokenVals)]

TokenExchanges ==
    {[net |-> FALSE, success |-> FALSE, body |-> NoTokenBody]}
    \cup [net : {TRUE}, success : BOOLEAN, body : TokenBodies]

TokenOk(t) == [kind |-> "Ok", msg |-> "", token |-> t]
TokenErr(kind, msg) == [kind |-> kind, msg |-> msg, token |-> ""]

get_request_token(x) ==
    IF ~x.net THEN TokenErr("Generic", "send")
    ELSE IF ~x.success THEN TokenErr("Generic", "Unsuccessfull request")
    ELSE IF ~x.body.json THEN TokenErr("Panic", "")
    ELSE IF ~x.body.object THEN TokenErr("Json", "")
    ELSE IF x.body.token = None THEN TokenErr("Json", "")
    ELSE IF ~x.body.token[1].str THEN TokenErr("Json", "")
    ELSE TokenOk(x.body.token[1].s)

\* Bodies of an auth.getSession response: not XML, or XML with or without
\* <session>, <key> in it, and text in that.
SessionKeys == {"sk"}
NoSessionBody == [xml |-> FALSE, session |-> FALSE, key |-> FALSE, text |-> None]
SessionBodies ==
    {NoSessionBody,
     [NoSessionBody EXCEPT !.xml = TRUE],
     [NoSessionBody EXCEPT !.xml = TRUE, !.session = TRUE]}
    \cup [xml : {TRUE}, session : {TRUE}, key : {TRUE}, text : Option(SessionKeys)]

SessionExchanges ==
    {[net |-> FALSE, success |-> FALSE, body |-> NoSessionBody]}
    \cup [net : {TRUE}, success : BOOLEAN, body : SessionBodies]

get_session_token(x) ==
    IF ~x.net THEN TokenErr("Generic", "send")
    ELSE IF ~x.success THEN TokenErr("Generic", "Unsuccessfull request")
    ELSE IF ~x.body.xml THEN TokenErr("Parse", "xml")
    ELSE IF ~x.body.session THEN TokenErr("Parse", "xml tag session")
    ELSE IF ~x.body.key THEN TokenErr("Parse", "xml tag key")
    ELSE IF x.body.text = None THEN TokenErr("Parse", "xml text")
    ELSE TokenOk(x.body.text[1])

\* Byte-wise order of the parameter names the model signs: the names in
\* ascending order (Ord for &str), and a < b as their places in it.
KeyOrderTable ==
    <<"a", "api_key", "artist", "b", "method", "sk", "timestamp", "token", "track">>
KeyIndex(k) == CHOOSE i \in 1..Len(KeyOrderTable) : KeyOrderTable[i] = k
StrLess(a, b) == KeyIndex(a) < KeyIndex(b)

\* keys.sort(): insertion of each key of the iteration order into its place
RECURSIVE InsertKey(_, _)
InsertKey(sorted, k) ==
    IF sorted = << >> THEN <<k>>
    ELSE IF StrLess(k, Head(sorted)) THEN <<k>> \o sorted
    ELSE <<Head(sorted)>> \o InsertKey(Tail(sorted), k)

\* mutant: the keys are taken in the map's iteration order
UnsortedKeys(keys) == keys

RECURSIVE SortKeys(_)
SortKeys(keys) ==
    IF keys = << >> THEN << >>
    ELSE InsertKey(SortKeys(Tail(keys)), Head(keys))

\* format!("{:x}", md5::compute(buf)): the digest as a function of the bytes
Md5Hex(buf) == "md5(" \o buf \o ")"

\* the loop of compute_signature: push key, push value
RECURSIVE PushPairs(_, _)
PushPairs(keys, params) ==
    IF keys = << >> THEN ""
    ELSE Head(keys) \o params[Head(keys)] \o PushPairs(Tail(keys), params)

\* compute_signature: order is the order params.keys() yields the keys in
compute_signature(order, params, secret) ==
    Md5Hex(PushPairs(SortKeys(order), params) \o secret)

\* i64::to_string on the timestamps the model sends
I64ToString(n) ==
    CASE n = 1700000000 -> "1700000000"
      [] n = 1699996400 -> "1699996400"
      [] OTHER -> "0"

\* post_params of get_session_token before api_sig (lines 105-109)
session_params(api_key, token) ==
    [k \in {"api_key", "method", "token"} |->
        CASE k = "api_key" -> api_key
          [] k = "method" -> "auth.getSession"
          [] k = "token" -> token]

\* post_params of scrobble before api_sig (lines 148-156)
scrobble_params(api_key, artist, track, timestamp_sec, session_key) ==
    [k \in {"api_key", "method", "artist", "track", "timestamp", "sk"} |->
        CASE k = "api_key" -> api_key
          [] k = "method" -> "track.scrobble"
          [] k = "artist" -> artist
          [] k = "track" -> track
          [] k = "timestamp" -> I64ToString(timestamp_sec)
          [] k = "sk" -> session_key]

\* post_params.insert("api_sig", api_sig) (lines 110-111, 157-158): the form sent
signed_form(order, params, secret) ==
    [k \in DOMAIN params \cup {"api_sig"} |->
        IF k = "api_sig" THEN compute_signature(order, params, secret) ELSE params[k]]

\* ------------------------------------------------------------- main.rs
\* humantime::parse_duration, then Duration::try_from, on the texts above
ParseDuration(text) ==
    CASE text = "1h" -> Some(3600)
      [] OTHER -> None

\* start_to_duration: Ok(None), Ok(Some(d)) or Err
start_to_duration(arg) ==
    IF arg = None THEN [ok |-> TRUE, duration |-> None]
    ELSE IF ParseDuration(arg[1]) = None THEN [ok |-> FALSE, duration |-> None]
    ELSE [ok |-> TRUE, duration |-> ParseDuration(arg[1])]

CliArgs ==
    [cmd : {"Scrobble"}, album : BOOLEAN, track : BOOLEAN, dryrun : BOOLEAN,
     start : Option(StartTexts)]
    \cup [cmd : {"ScrobbleUrl"}, album : {FALSE}, track : {FALSE}, dryrun : BOOLEAN,
          start : Option(StartTexts)]
    \cup [cmd : {"Auth"}, album : {FALSE}, track : {FALSE}, dryrun : {FALSE},
          start : {None}]

\* the arm of `match cli_args` that run() takes
run_arm(args) ==
    IF args.cmd = "Auth" THEN "authenticate"
    ELSE IF args.cmd = "Scrobble" /\ args.album THEN "scrobble_album"
    ELSE IF args.cmd = "Scrobble" /\ args.track THEN "scrobble_track"
    ELSE IF args.cmd = "Scrobble" THEN "wrong_arguments"
    ELSE "scrobble_url"

\* ------------------------------------------------------------ scrobbler.rs
\* `x as i16` of an integer x (also of the wrapped usize 0 - 1: 2^16 divides 2^64)
ToI16(x) == ((x + 32768) % 65536) - 32768

RECURSIVE album_len(_)
album_len(tracks) ==
    IF tracks = << >> THEN 0
    ELSE tracks[1].duration + album_len(Tail(tracks))

\* start_time before the loop (lines 23-24)
timeline_start_time(t, tracks, off) ==
    t - album_len(tracks) - ToI16(Len(tracks) - 1) * TrackGap - off

\* start_time += duration + track_gap (line 28)
timeline_advance(cursor, track) == cursor + track.duration + TrackGap

\* mutant: the loop submits in a dry run too
timeline_submits_always(dry) == TRUE

\* `if !dryrun` (line 37)
timeline_submits(dry) == ~dry

\* mutant: an Unscrobbled result leaves the loop like any other error
timeline_match_ignored_returns(o) ==
    CASE o.kind = "Ok" -> "next"
      [] OTHER -> "return"

\* the match on api.scrobble's result in the loop (lines 38-45)
timeline_match(o) ==
    CASE o.kind = "Ok" -> "next"
      [] o.kind = "Unscrobbled" -> "unscrobbled"
      [] OTHER -> "return"

\* mutant: the any_unscrobbled flag is not looked at
timeline_result_flag_dropped(unscrobbled) == Ok

\* the value after the loop (lines 49-53)
timeline_result(unscrobbled) ==
    IF unscrobbled THEN Err("Anyhow", "Not all tracks scrobbled") ELSE Ok

\* mutant: an Unscrobbled result is returned as the error it is
track_result_ignored_fails(o) ==
    CASE o.kind = "Ok" -> Ok
      [] OTHER -> o

\* scrobble_track's match (lines 100-107)
track_result(o) ==
    CASE o.kind = "Ok" -> Ok
      [] o.kind = "Unscrobbled" -> Ok
      [] OTHER -> o

\* scrobble_track submits whatever _dryrun is (lines 92, 100)
track_submits(dry) == TRUE

\* offset = start.map_or(Duration::ZERO, |v| v)
offset_of(st) == IF st = None THEN 0 ELSE st[1]

\* scrobble_url's checks of the URL (lines 118-133)
Urls == [parses : BOOLEAN, base : BOOLEAN, host : {"last.fm", "www.last.fm", "example.com"},
         path : {<<"music", "Artist", "Album">>, <<"music", "Artist">>,
                 <<"user", "Artist", "Album">>},
         utf8 : BOOLEAN]

url_check(u) ==
    IF ~u.parses THEN Err("Url", "parse")
    ELSE IF ~u.base THEN Err("Anyhow", "Cannot parse path")
    ELSE IF ~(u.host = "last.fm" \/ u.host = "www.last.fm")
        THEN Err("Anyhow", "URL is not from last.fm")
    ELSE IF Len(u.path) < 3 \/ u.path[1] # "music"
        THEN Err("Anyhow", "URL must be in format")
    ELSE IF ~u.utf8 THEN Err("Utf8", "decode")
    ELSE Ok

\* ----------------------------------------------------------------- auth.rs
ApiKey == "key"
SecretKey == "secret"

\* mutant: the error of get_request_token is not propagated
auth_after_request_token_unchecked(r) ==
    IF r.kind = "Panic" THEN "panicked" ELSE "auth_wait"

\* `api.get_request_token()?` (line 65): where authenticate goes next
auth_after_request_token(r) ==
    IF r.kind = "Ok" THEN "auth_wait"
    ELSE IF r.kind = "Panic" THEN "panicked"
    ELSE "done"

\* `api.get_session_token(request_token).context(..)?` (lines 80-82)
auth_after_session_token(r) ==
    IF r.kind = "Ok" THEN "auth_save" ELSE "done"

\* the AuthConfig save_auth_config serializes (lines 36-40)
auth_config(session_key) ==
    [api_key |-> ApiKey, secret_key |-> SecretKey, session_key |-> session_key]

\* ------------------------------------------------------------------- state
VARIABLES
    pc,               \* where the invocation is: "run", "scrobble_url", "scrobble_album",
                      \* "scrobble_track", "timeline", "loop", "authenticate",
                      \* "auth_wait", "auth_exchange", "auth_save", "done", "panicked"
    op,               \* the operation run() dispatched to ("none" before)
    dryrun,           \* the dryrun argument
    start,            \* the start argument after start_to_duration: Option<Duration>
    album_exchange,   \* Option: the album.getInfo exchange get_album_tracks saw
    lookup,           \* what get_album_tracks returned (kind "none" before)
    now,              \* now_local()
    start_time,       \* the loop's running timestamp
    idx,              \* tracks the loop has gone through
    any_unscrobbled,
    logged,           \* the timestamps the loop logged, in order
    scrobble_calls,   \* the api.scrobble calls made: [idx, track, timestamp]
    outcomes,         \* what each of those calls returned (its kind)
    scrobble_exchange,\* SpecScrobbleResponse only: the exchange a scrobble call sees
    scrobble_outcome, \* SpecScrobbleResponse only: what the call returned
    result,           \* what run() returned (kind "none" before)
    auth_steps,       \* the steps authenticate has taken, in order
    request_token,    \* what get_request_token returned (kind "none" before)
    session_token,    \* what get_session_token returned (kind "none" before)
    saved_config,     \* Option: the AuthConfig save_auth_config wrote
    signing           \* SpecSignature only: a signing and what it produced

auth_vars == <<auth_steps, request_token, session_token, saved_config>>

scrobble_vars == <<signing, dryrun, start, album_exchange, lookup, now, start_time, idx,
                   any_unscrobbled, logged, scrobble_calls, outcomes, scrobble_exchange,
                   scrobble_outcome>>

vars == <<pc, op, dryrun, start, album_exchange, lookup, now, start_time, idx,
          any_unscrobbled, logged, scrobble_calls, outcomes, scrobble_exchange,
          scrobble_outcome, result, auth_vars, signing>>

NoLookup == [kind |-> "none", msg |-> "", album |-> NoAlbum]
NoToken == [kind |-> "none", msg |-> "", token |-> ""]

InitLocals ==
    /\ op = "none"
    /\ dryrun = FALSE
    /\ start = None
    /\ album_exchange = None
    /\ lookup = NoLookup
    /\ now = 0
    /\ start_time = 0
    /\ idx = 0
    /\ any_unscrobbled = FALSE
    /\ logged = << >>
    /\ scrobble_calls = << >>
    /\ outcomes = << >>
    /\ scrobble_outcome = NoResult
    /\ result = NoResult
    /\ auth_steps = << >>
    /\ request_token = NoToken
    /\ session_token = NoToken
    /\ saved_config = None

NoSigning == [call |-> "none", order |-> << >>, params |-> << >>, secret |-> "",
              signature |-> "", form |-> << >>]

Init ==
    /\ pc = "run"
    /\ scrobble_exchange = None
    /\ signing = NoSigning
    /\ InitLocals

\* main.rs run(): start_to_duration(start)? and the dispatch
Run ==
    /\ pc = "run"
    /\ \E args \in CliArgs :
         LET arm == run_arm(args)
             d == start_to_duration(args.start)
         IN  /\ op' = arm
             /\ dryrun' = args.dryrun
             /\ IF arm = "wrong_arguments"
                    THEN /\ pc' = "done"
                         /\ result' = Err("Anyhow", "Wrong arguments")
                         /\ start' = None
                ELSE IF ~d.ok
                    THEN /\ pc' = "done"
                         /\ result' = Err("Anyhow", "Parse string start time")
                         /\ start' = None
                ELSE /\ pc' = arm
                     /\ result' = result
                     /\ start' = d.duration
    /\ UNCHANGED <<album_exchange, lookup, now, start_time, idx, any_unscrobbled,
                   logged, scrobble_calls, outcomes, scrobble_exchange, scrobble_outcome>>
    /\ UNCHANGED <<auth_vars, signing>>

\* scrobble_url up to its call of scrobble_album
ScrobbleUrl ==
    /\ pc = "scrobble_url"
    /\ \E u \in Urls :
         IF url_check(u).kind = "Ok"
             THEN pc' = "scrobble_album" /\ op' = "scrobble_album" /\ result' = result
         ELSE pc' = "done" /\ op' = op /\ result' = url_check(u)
    /\ UNCHANGED <<dryrun, start, album_exchange, lookup, now, start_time, idx,
                   any_unscrobbled, logged, scrobble_calls, outcomes, scrobble_exchange,
                   scrobble_outcome>>
    /\ UNCHANGED <<auth_vars, signing>>

\* scrobble_album: load_auth_config()?, get_album_tracks and the match on it
ScrobbleAlbum ==
    /\ pc = "scrobble_album"
    /\ \/ /\ pc' = "done"
          /\ result' = Err("Config", "load_auth_config")
          /\ UNCHANGED <<album_exchange, lookup>>
       \/ \E x \in AlbumExchanges :
            LET r == get_album_tracks(x)
            IN  /\ album_exchange' = Some(x)
                /\ lookup' = r
                /\ IF r.kind = "Ok" THEN pc' = "timeline" /\ result' = result
                   ELSE IF r.kind = "Panic" THEN pc' = "panicked" /\ result' = result
                   ELSE pc' = "done" /\ result' = Err(r.kind, r.msg)
    /\ UNCHANGED <<op, dryrun, start, now, start_time, idx, any_unscrobbled, logged,
                   scrobble_calls, outcomes, scrobble_exchange, scrobble_outcome>>
    /\ UNCHANGED <<auth_vars, signing>>

\* scrobble_timeline before its loop (lines 19-25). With no track, len() - 1
\* overflows: a build with overflow checks panics, one without wraps.
TimelineStart ==
    /\ pc = "timeline"
    /\ \E t \in RefTimes :
         \/ /\ now' = t
            /\ start_time' = timeline_start_time(t, lookup.album.tracks, offset_of(start))
            /\ pc' = "loop"
         \/ /\ Len(lookup.album.tracks) = 0
            /\ now' = t
            /\ start_time' = start_time
            /\ pc' = "panicked"
    /\ UNCHANGED <<op, dryrun, start, album_exchange, lookup, idx, any_unscrobbled,
                   logged, scrobble_calls, outcomes, scrobble_exchange, scrobble_outcome,
                   result>>
    /\ UNCHANGED <<auth_vars, signing>>

\* one iteration of the loop (lines 26-47)
TimelineStep ==
    /\ pc = "loop"
    /\ idx < Len(lookup.album.tracks)
    /\ LET track == lookup.album.tracks[idx + 1]
           when == timeline_advance(start_time, track)
       IN  /\ start_time' = when
           /\ logged' = Append(logged, when)
           /\ IF timeline_submits(dryrun)
                  THEN \E x \in ScrobbleExchanges :
                         LET o == scrobble(x)
                             arm == timeline_match(o)
                         IN  /\ scrobble_calls' = Append(scrobble_calls,
                                    [idx |-> idx + 1, track |-> track.title,
                                     timestamp |-> when])
                             /\ outcomes' = Append(outcomes, o.kind)
                             /\ IF o.kind = "Panic"
                                    THEN /\ pc' = "panicked"
                                         /\ UNCHANGED <<idx, any_unscrobbled, result>>
                                ELSE IF arm = "return"
                                    THEN /\ pc' = "done"
                                         /\ result' = o
                                         /\ UNCHANGED <<idx, any_unscrobbled>>
                                ELSE /\ pc' = "loop"
                                     /\ idx' = idx + 1
                                     /\ any_unscrobbled' =
                                            (any_unscrobbled \/ arm = "unscrobbled")
                                     /\ result' = result
              ELSE /\ idx' = idx + 1
                   /\ UNCHANGED <<pc, any_unscrobbled, scrobble_calls, outcomes, result>>
    /\ UNCHANGED <<op, dryrun, start, album_exchange, lookup, now, scrobble_exchange,
                   scrobble_outcome>>
    /\ UNCHANGED <<auth_vars, signing>>

\* after the loop (lines 49-53), returned through scrobble_album (lines 81-82)
TimelineReturn ==
    /\ pc = "loop"
    /\ idx = Len(lookup.album.tracks)
    /\ pc' = "done"
    /\ result' = timeline_result(any_unscrobbled)
    /\ UNCHANGED <<op, dryrun, start, album_exchange, lookup, now, start_time, idx,
                   any_unscrobbled, logged, scrobble_calls, outcomes, scrobble_exchange,
                   scrobble_outcome>>
    /\ UNCHANGED <<auth_vars, signing>>

\* scrobble_track
ScrobbleTrack ==
    /\ pc = "scrobble_track"
    /\ \/ /\ pc' = "done"
          /\ result' = Err("Config", "load_auth_config")
          /\ UNCHANGED <<now, scrobble_calls, outcomes>>
       \/ \E t \in RefTimes :
            /\ now' = t
            /\ IF track_submits(dryrun)
                   THEN \E x \in ScrobbleExchanges :
                          LET o == scrobble(x)
                          IN  /\ scrobble_calls' = Append(scrobble_calls,
                                     [idx |-> 1, track |-> "Eden",
                                      timestamp |-> t - offset_of(start)])
                              /\ outcomes' = Append(outcomes, o.kind)
                              /\ IF o.kind = "Panic"
                                     THEN pc' = "panicked" /\ result' = result
                                 ELSE pc' = "done" /\ result' = track_result(o)
               ELSE /\ pc' = "done"
                    /\ result' = Ok
                    /\ UNCHANGED <<scrobble_calls, outcomes>>
    /\ UNCHANGED <<op, dryrun, start, album_exchange, lookup, start_time, idx,
                   any_unscrobbled, logged, scrobble_exchange, scrobble_outcome>>
    /\ UNCHANGED <<auth_vars, signing>>

\* authenticate up to and including get_request_token()? (lines 57-65)
AuthRequestToken ==
    /\ pc = "authenticate"
    /\ \E x \in TokenExchanges :
         LET r == get_request_token(x)
         IN  /\ request_token' = r
             /\ pc' = auth_after_request_token(r)
             /\ result' = IF auth_after_request_token(r) = "done" THEN Err(r.kind, r.msg)
                          ELSE result
    /\ auth_steps' = Append(auth_steps, "requestToken")
    /\ UNCHANGED <<op, session_token, saved_config, scrobble_vars>>

\* the URL is shown and read_line returns, with a line or an error (lines 67-78)
AuthWait ==
    /\ pc = "auth_wait"
    /\ pc' = "auth_exchange"
    /\ auth_steps' = Append(auth_steps, "wait")
    /\ UNCHANGED <<op, result, request_token, session_token, saved_config, scrobble_vars>>

\* get_session_token(request_token).context(..)? (lines 80-83)
AuthExchange ==
    /\ pc = "auth_exchange"
    /\ \E x \in SessionExchanges :
         LET r == get_session_token(x)
         IN  /\ session_token' = r
             /\ pc' = auth_after_session_token(r)
             /\ result' = IF r.kind = "Ok" THEN result ELSE Err(r.kind, r.msg)
    /\ auth_steps' = Append(auth_steps, "exchangeSessionToken")
    /\ UNCHANGED <<op, request_token, saved_config, scrobble_vars>>

\* save_auth_config(api_key, secret_key, token)? and Ok(()) (lines 84-85); the
\* serialization or the write can fail
AuthSave ==
    /\ pc = "auth_save"
    /\ \/ /\ saved_config' = Some(auth_config(session_token.token))
          /\ result' = Ok
       \/ /\ saved_config' = saved_config
          /\ result' = Err("Io", "save_auth_config")
    /\ pc' = "done"
    /\ auth_steps' = Append(auth_steps, "persist")
    /\ UNCHANGED <<op, request_token, session_token, scrobble_vars>>

Next ==
    \/ Run
    \/ AuthRequestToken
    \/ AuthWait
    \/ AuthExchange
    \/ AuthSave
    \/ ScrobbleUrl
    \/ ScrobbleAlbum
    \/ TimelineStart
    \/ TimelineStep
    \/ TimelineReturn
    \/ ScrobbleTrack

Spec == Init /\ [][Next]_vars

\* ------------------------------------------- one api.scrobble call, alone
\* The call as a function of the exchange it sees: Init draws the exchange,
\* the one action applies LastfmApi::scrobble to it.
InitScrobbleResponse ==
    /\ pc = "scrobble"
    /\ scrobble_exchange \in {Some(x) : x \in ScrobbleExchanges}
    /\ signing = NoSigning
    /\ InitLocals

ScrobbleCall ==
    /\ pc = "scrobble"
    /\ scrobble_outcome' = scrobble(scrobble_exchange[1])
    /\ pc' = IF scrobble(scrobble_exchange[1]).kind = "Panic" THEN "panicked"
             ELSE "returned"
    /\ UNCHANGED <<op, dryrun, start, album_exchange, lookup, now, start_time, idx,
                   any_unscrobbled, logged, scrobble_calls, outcomes, scrobble_exchange,
                   result>>
    /\ UNCHANGED <<auth_vars, signing>>

NextScrobbleResponse == ScrobbleCall

SpecScrobbleResponse == InitScrobbleResponse /\ [][NextScrobbleResponse]_vars

\* ------------------------------------------------- one signing, alone
\* compute_signature and the two signed requests as functions of their
\* inputs: Init draws the parameters, the secret and the order in which the
\* HashMap yields its keys; each action applies the code to them.
KeyOrders(S) ==
    {q \in [1..Cardinality(S) -> S] : \A i, j \in 1..Cardinality(S) : q[i] = q[j] => i = j}

Secrets == {"", "secret"}
ExampleParams == [k \in {"a", "b"} |-> IF k = "a" THEN "1" ELSE "2"]

SigningInputs ==
    {[call |-> "sign", params |-> ExampleParams]}
    \cup {[call |-> "auth.getSession", params |-> session_params(ApiKey, t)] : t \in Tokens}
    \cup {[call |-> "track.scrobble",
           params |-> scrobble_params(ApiKey, "Hooverphonic", title, t, sk)] :
             title \in Titles, t \in RefTimes, sk \in SessionKeys}

InitSignature ==
    /\ pc = "sign"
    /\ scrobble_exchange = None
    /\ \E inp \in SigningInputs, secret \in Secrets :
         \E order \in KeyOrders(DOMAIN inp.params) :
            signing = [call |-> inp.call, order |-> order, params |-> inp.params,
                       secret |-> secret, signature |-> "", form |-> << >>]
    /\ InitLocals

\* compute_signature on its own
ComputeSignature ==
    /\ pc = "sign"
    /\ signing.call = "sign"
    /\ signing' = [signing EXCEPT
          !.signature = compute_signature(signing.order, signing.params, signing.secret)]
    /\ pc' = "signed"
    /\ UNCHANGED <<op, dryrun, start, album_exchange, lookup, now, start_time, idx,
                   any_unscrobbled, logged, scrobble_calls, outcomes, scrobble_exchange,
                   scrobble_outcome, result, auth_vars>>

\* get_session_token up to the request it sends (lines 105-119)
SignSessionRequest ==
    /\ pc = "sign"
    /\ signing.call = "auth.getSession"
    /\ signing' = [signing EXCEPT
          !.signature = compute_signature(signing.order, signing.params, signing.secret),
          !.form = signed_form(signing.order, signing.params, signing.secret)]
    /\ pc' = "signed"
    /\ UNCHANGED <<op, dryrun, start, album_exchange, lookup, now, start_time, idx,
                   any_unscrobbled, logged, scrobble_calls, outcomes, scrobble_exchange,
                   scrobble_outcome, result, auth_vars>>

\* scrobble up to the request it sends (lines 148-166)
SignScrobbleRequest ==
    /\ pc = "sign"
    /\ signing.call = "track.scrobble"
    /\ signing' = [signing EXCEPT
          !.signature = compute_signature(signing.order, signing.params, signing.secret),
          !.form = signed_form(signing.order, signing.params, signing.secret)]
    /\ pc' = "signed"
    /\ UNCHANGED <<op, dryrun, start, album_exchange, lookup, now, start_time, idx,
                   any_unscrobbled, logged, scrobble_calls, outcomes, scrobble_exchange,
                   scrobble_outcome, result, auth_vars>>

NextSignature ==
    \/ ComputeSignature
    \/ SignSessionRequest
    \/ SignScrobbleRequest

SpecSignature == InitSignature /\ [][NextSignature]_vars

\* ------------------------------------------------------------- properties
Tracks == lookup.album.tracks
NTracks == Len(lookup.album.tracks)

\* the album batch has started on a looked-up album, for real
RealBatch == op = "scrobble_album" /\ lookup.kind = "Ok" /\ ~dryrun

\* what api.scrobble returns as the spec's Protocol (Generic) and Malformed (Parse)
ProtocolOrMalformed == {"Generic", "Parse"}

Submitted(k) == k <= Len(scrobble_calls)

NoEarlierError(k) ==
    \A j \in 1..(k - 1) : j <= Len(outcomes) => outcomes[j] \notin ProtocolOrMalformed

\* C1: in an album batch that is not a dry run, the calls of api.scrobble are
\* tracks 1, 2, 3, ... of the album in that order, each once; a track is
\* submitted only if no earlier submission returned a Generic or Parse error;
\* while the loop runs every track before idx was submitted without such an
\* error; and when the batch has returned, track k was submitted if and only if
\* no earlier submission returned such an error (so an Unscrobbled outcome did
\* not stop the batch and nothing follows the first error).
C1_BatchOrder ==
    RealBatch =>
        /\ Len(scrobble_calls) <= NTracks
        /\ Len(outcomes) = Len(scrobble_calls)
        /\ \A i \in 1..Len(scrobble_calls) :
              /\ scrobble_calls[i].idx = i
              /\ scrobble_calls[i].track = Tracks[i].title
        /\ \A k \in 1..NTracks : Submitted(k) => NoEarlierError(k)
        /\ pc = "loop" => Len(scrobble_calls) = idx
        /\ pc = "done" => \A k \in 1..NTracks : Submitted(k) <=> NoEarlierError(k)

\* an Ignored first track, an error on the second, a third track never sent
C1_Witness ==
    /\ RealBatch
    /\ pc = "done"
    /\ NTracks = 3
    /\ outcomes = <<"Unscrobbled", "Parse">>
    /\ Len(scrobble_calls) = 2

FirstError ==
    CHOOSE j \in 1..Len(outcomes) :
        /\ outcomes[j] \in ProtocolOrMalformed
        /\ \A i \in 1..(j - 1) : outcomes[i] \notin ProtocolOrMalformed

\* C2: when an album batch that is not a dry run has returned, its result is
\* the first Generic or Parse error a submission returned, if there is one;
\* else the "Not all tracks scrobbled" failure if a submission returned
\* Unscrobbled; else Ok. So it is Ok exactly when every track of the album was
\* submitted and accepted.
C2_BatchResult ==
    (RealBatch /\ pc = "done") =>
        /\ IF \E j \in 1..Len(outcomes) : outcomes[j] \in ProtocolOrMalformed
               THEN result.kind = outcomes[FirstError]
           ELSE IF \E j \in 1..Len(outcomes) : outcomes[j] = "Unscrobbled"
               THEN result = Err("Anyhow", "Not all tracks scrobbled")
           ELSE result = Ok
        /\ result = Ok <=>
              /\ Len(outcomes) = NTracks
              /\ \A j \in 1..NTracks : outcomes[j] = "Ok"

\* one Ignored track among three, the other two accepted: the batch fails
C2_Witness ==
    /\ RealBatch
    /\ pc = "done"
    /\ outcomes = <<"Ok", "Unscrobbled", "Ok">>
    /\ result = Err("Anyhow", "Not all tracks scrobbled")

\* the durations of the tracks after track i
DurationAfter(i) == album_len(SubSeq(Tracks, i + 1, NTracks))

\* C3 (as claimed): for a non-empty album the timestamp given to track i is
\* now - offset - (the durations of the tracks after i) - 5 * (the number of
\* tracks after i), so the last track gets exactly now - offset.
C3_TimestampsEndAtReference ==
    (op = "scrobble_album" /\ lookup.kind = "Ok" /\ NTracks > 0) =>
        \A i \in 1..Len(logged) :
            logged[i] = now - offset_of(start) - DurationAfter(i)
                            - TrackGap * (NTracks - i)

\* what the loop gives track i as a function of the inputs alone: one gap later
PlannedTimestamp(i) ==
    now - offset_of(start) - DurationAfter(i) - TrackGap * (NTracks - i) + TrackGap

\* C4: the album loop gives track i the same timestamp, a function of the album,
\* now and the offset alone, whether or not it is a dry run, and a real run
\* submits exactly that timestamp; a dry run calls api.scrobble for no track,
\* and once the lookup has succeeded it goes through every track and returns Ok.
C4_DryRunPlansOnly ==
    (op = "scrobble_album" /\ lookup.kind = "Ok") =>
        /\ \A i \in 1..Len(logged) : logged[i] = PlannedTimestamp(i)
        /\ \A i \in 1..Len(scrobble_calls) : scrobble_calls[i].timestamp = logged[i]
        /\ dryrun => /\ scrobble_calls = << >>
                     /\ outcomes = << >>
                     /\ pc = "loop" => Len(logged) = idx
                     /\ pc = "done" => result = Ok /\ Len(logged) = NTracks

\* a dry run over three tracks that has returned
C4_Witness ==
    /\ op = "scrobble_album"
    /\ dryrun
    /\ pc = "done"
    /\ NTracks = 3
    /\ Len(logged) = 3
    /\ result = Ok

\* C5 (as claimed): with the dryrun flag set no write is done by any scrobble
\* command, the single-track command included: the service accepts no scrobble.
C5_DryRunNoWrites ==
    dryrun => \A i \in 1..Len(outcomes) : outcomes[i] # "Ok"

\* C6: when the single-track command has submitted and returned, it returns Ok
\* if the submission returned Ok or Unscrobbled, and it returns an error exactly
\* when the submission returned a Generic or Parse error, that error; whereas an
\* album batch that has returned after an Unscrobbled outcome never returns Ok.
C6_TrackResult ==
    /\ (op = "scrobble_track" /\ pc = "done" /\ Len(outcomes) = 1) =>
          /\ outcomes[1] \in {"Ok", "Unscrobbled"} => result = Ok
          /\ result # Ok <=> outcomes[1] \in ProtocolOrMalformed
          /\ result # Ok => result.kind = outcomes[1]
    /\ (RealBatch /\ pc = "done"
            /\ \E j \in 1..Len(outcomes) : outcomes[j] = "Unscrobbled") => result # Ok

\* an Ignored single track: the command still returns Ok
C6_Witness ==
    /\ op = "scrobble_track"
    /\ pc = "done"
    /\ outcomes = <<"Unscrobbled">>
    /\ result = Ok

\* a track.scrobble exchange with a success status whose <scrobbles> element
\* carries integer accepted and ignored attributes
IntegerAttributes(x) ==
    /\ x.net /\ x.success /\ x.body.xml /\ x.body.scrobbles
    /\ x.body.accepted # None /\ ParseI64(x.body.accepted[1]) # None
    /\ x.body.ignored # None /\ ParseI64(x.body.ignored[1]) # None

\* C7 (as claimed): for every such exchange the call returns one of Accepted
\* (Ok), Ignored (Unscrobbled) or Malformed (Parse) and nothing else: (1,0)
\* gives Ok; (0,1) gives Unscrobbled, carrying the code and the text (empty if
\* there is none) of the ignoredMessage element the response holds; every other
\* pair gives Parse.
C7_ThreeOutcomes ==
    (pc # "scrobble" /\ scrobble_exchange # None
        /\ IntegerAttributes(scrobble_exchange[1])) =>
        LET x == scrobble_exchange[1]
            a == ParseI64(x.body.accepted[1])[1]
            i == ParseI64(x.body.ignored[1])[1]
            m == x.body.message
        IN  /\ scrobble_outcome.kind \in {"Ok", "Unscrobbled", "Parse"}
            /\ (a = 1 /\ i = 0) => scrobble_outcome = Ok
            /\ (a = 0 /\ i = 1 /\ m.ignoredMessage) =>
                  /\ scrobble_outcome.kind = "Unscrobbled"
                  /\ m.code # None =>
                        scrobble_outcome.msg =
                            m.code[1] \o ": " \o (IF m.text = None THEN "" ELSE m.text[1])
            /\ ~(a = 1 /\ i = 0) /\ ~(a = 0 /\ i = 1) => scrobble_outcome.kind = "Parse"

\* an album.getInfo exchange with a success status and a JSON object body that
\* has an album
HasAlbum(x) == x.net /\ x.success /\ x.body.json /\ x.body.object /\ x.body.album # None

IsString(field) == field # None /\ field[1].str

\* ... whose album has a track array
HasTrackArray(x) ==
    /\ HasAlbum(x)
    /\ x.body.album[1].tracks # None
    /\ x.body.album[1].tracks[1].track # None
    /\ x.body.album[1].tracks[1].track[1].array

Items(x) == x.body.album[1].tracks[1].track[1].items

\* C8 (as claimed): when nothing but the duration fields can be wrong with the
\* response (album name a string, url there, every entry's name a string), the
\* lookup succeeds, with a track per entry whose duration is the entry's
\* integer, or 300 when the duration is missing or not a number.
C8_DurationDefault ==
    (album_exchange # None /\ HasTrackArray(album_exchange[1])
        /\ IsString(album_exchange[1].body.album[1].name)
        /\ album_exchange[1].body.album[1].url # None
        /\ \A i \in 1..Len(Items(album_exchange[1])) :
              IsString(Items(album_exchange[1])[i].name)) =>
        /\ lookup.kind = "Ok"
        /\ Len(Tracks) = Len(Items(album_exchange[1]))
        /\ \A i \in 1..Len(Tracks) :
              LET d == Items(album_exchange[1])[i].duration
              IN  Tracks[i].duration =
                      IF d # None /\ d[1].int THEN d[1].n ELSE DefaultDuration

\* C9: an album.getInfo response with a success status whose album has no
\* "tracks" makes get_album_tracks return the "Empty album" error, which is not
\* the Json error and not an album, and the album command returns that error
\* without a call of api.scrobble; no other response gives that error.
C9_EmptyAlbum ==
    album_exchange # None =>
        /\ (HasAlbum(album_exchange[1]) /\ album_exchange[1].body.album[1].tracks = None) =>
              /\ lookup = AlbumErr("Unscrobbled", "Empty album")
              /\ lookup.kind \notin {"Ok", "Json", "Parse"}
              /\ pc = "done"
              /\ result = Err("Unscrobbled", "Empty album")
              /\ scrobble_calls = << >>
        /\ lookup = AlbumErr("Unscrobbled", "Empty album") =>
              (HasAlbum(album_exchange[1]) /\ album_exchange[1].body.album[1].tracks = None)

\* the album is there, named, with a url, and has no tracks member
C9_Witness ==
    /\ album_exchange # None
    /\ HasAlbum(album_exchange[1])
    /\ IsString(album_exchange[1].body.album[1].name)
    /\ album_exchange[1].body.album[1].tracks = None
    /\ pc = "done"
    /\ result = Err("Unscrobbled", "Empty album")

\* C10 (as claimed): a response with album.name and a valid, non-empty
\* album.tracks.track array but no album.url gives an album whose url is None.
C10_UrlOptional ==
    (album_exchange # None /\ HasTrackArray(album_exchange[1])
        /\ IsString(album_exchange[1].body.album[1].name)
        /\ Len(Items(album_exchange[1])) > 0
        /\ \A i \in 1..Len(Items(album_exchange[1])) :
              parse_track(Items(album_exchange[1])[i]).kind = "Ok"
        /\ album_exchange[1].body.album[1].url = None) =>
        /\ lookup.kind = "Ok"
        /\ lookup.album.url = None

HandshakeOrder == <<"requestToken", "wait", "exchangeSessionToken", "persist">>

Took(step) == \E i \in 1..Len(auth_steps) : auth_steps[i] = step

\* C11: the steps authenticate takes are a prefix of requestToken, wait,
\* exchangeSessionToken, persist, in that order; the wait and the exchange are
\* taken only after get_request_token returned Ok, the persisting only after
\* get_session_token returned Ok; a config is written only by the persist step
\* and holds the session key that call returned; and when authenticate has
\* returned after either token call failed, it returned an error and no config
\* was written.
C11_HandshakeOrder ==
    /\ saved_config # None => op = "authenticate"
    /\ op = "authenticate" =>
          /\ Len(auth_steps) <= 4
          /\ \A i \in 1..Len(auth_steps) : auth_steps[i] = HandshakeOrder[i]
          /\ Took("wait") => request_token.kind = "Ok"
          /\ Took("exchangeSessionToken") => request_token.kind = "Ok"
          /\ Took("persist") => session_token.kind = "Ok"
          /\ saved_config # None =>
                /\ Took("persist")
                /\ saved_config[1] = auth_config(session_token.token)
          /\ result = Ok => saved_config # None
          /\ (pc = "done" /\ (request_token.kind # "Ok" \/ session_token.kind # "Ok")) =>
                /\ result.kind \notin {"Ok", "none"}
                /\ saved_config = None

\* the exchange failed after a token was given and the wait was over
C11_Witness ==
    /\ op = "authenticate"
    /\ pc = "done"
    /\ auth_steps = <<"requestToken", "wait", "exchangeSessionToken">>
    /\ request_token.kind = "Ok"
    /\ session_token.kind = "Parse"
    /\ saved_config = None
    /\ result.kind = "Parse"

\* The i-th smallest name of a parameter map, and the text the claim
\* prescribes: names ascending, each followed by its value, then the secret.
NthKey(P, i) ==
    CHOOSE k \in DOMAIN P : Cardinality({j \in DOMAIN P : StrLess(j, k)}) = i - 1

RECURSIVE CanonicalPairs(_, _)
CanonicalPairs(P, i) ==
    IF i > Cardinality(DOMAIN P) THEN ""
    ELSE NthKey(P, i) \o P[NthKey(P, i)] \o CanonicalPairs(P, i + 1)

CanonicalSignature(P, secret) == Md5Hex(CanonicalPairs(P, 1) \o secret)

ReverseOrder(order) == [i \in 1..Len(order) |-> order[Len(order) + 1 - i]]

WireFields(call) ==
    IF call = "auth.getSession" THEN {"api_key", "method", "token", "api_sig"}
    ELSE {"api_key", "method", "artist", "track", "timestamp", "sk", "api_sig"}

\* C12: the signature is the digest of the names in ascending order, each
\* immediately followed by its value, then the secret, whatever order the
\* parameters were supplied in (so the reversed order gives the same
\* signature); and in the auth.getSession and track.scrobble requests the
\* api_sig field sent is that signature of all the other fields sent.
C12_SignatureCoversFields ==
    pc = "signed" =>
        /\ signing.signature = CanonicalSignature(signing.params, signing.secret)
        /\ signing.signature =
              compute_signature(ReverseOrder(signing.order), signing.params, signing.secret)
        /\ signing.call # "sign" =>
              LET sent == [k \in DOMAIN signing.form \ {"api_sig"} |-> signing.form[k]] IN
              /\ DOMAIN signing.form = WireFields(signing.call)
              /\ signing.form["method"] = signing.call
              /\ signing.form["api_sig"] = CanonicalSignature(sent, signing.secret)

\* a signed track.scrobble request whose parameters came out of the map in
\* descending order of their names
C12_Witness ==
    /\ pc = "signed"
    /\ signing.call = "track.scrobble"
    /\ signing.order = <<"track", "timestamp", "sk", "method", "artist", "api_key">>
    /\ signing.secret = "secret"
    /\ signing.form["api_sig"] =
          "md5(api_keykeyartistHooverphonicmethodtrack.scrobblesksktimestamp1700000000trackEdensecret)"

\* The kinds a call hands back as a value: Ok is Success, Generic is
\* HttpFailure, and Parse, Json and Unscrobbled are ParseFailure.
ReturnedKinds == {"Ok", "Generic", "Parse", "Json", "Unscrobbled"}
Returned(r) == r.kind = "none" \/ r.kind \in ReturnedKinds

\* C13: every call of the client that has ended (get_request_token,
\* get_session_token, get_album_tracks, scrobble) has returned a value, Ok or
\* one of the typed errors, whatever the status and the body of the response
\* were; no call has aborted the process instead.
C13_EveryCallReturns ==
    /\ Returned(request_token)
    /\ Returned(session_token)
    /\ Returned(lookup)
    /\ \A i \in 1..Len(outcomes) : outcomes[i] \in ReturnedKinds

\* C14: the album of every successful get_album_tracks has at least one
\* track, so scrobble_timeline never computes its (len - 1) * track_gap term
\* on an album of no tracks.
C14_AlbumHasTracks ==
    /\ lookup.kind = "Ok" => NTracks >= 1
    /\ pc = "loop" => NTracks >= 1

====
